---------------------------- MODULE Spec2Model ----------------------------
(***************************************************************************)
(* Model of the progress tracking and batch orchestration of               *)
(* fgg_art_assist.py: the module globals CURRENT_TASK ... LAST_PROGRESS,   *)
(* the two generator handlers cleanup_sketch and fix_face_only, the timer  *)
(* callback poll_status, reset_ui_state and interrupt_generation.          *)
(*                                                                         *)
(* Handlers run on worker threads, so each call is a process whose steps   *)
(* are the stretches of code the interpreter runs without handing over to  *)
(* another thread: from the return of one call (of a function, of the      *)
(* external server) to the next.                                           *)
(*                                                                         *)
(* Numbers.  The code computes with Python floats (IEEE 754 doubles).  The  *)
(* model holds every float exactly, as a pair <<n, e>> that stands for     *)
(*   n / Unit + e / (Unit * 2^ErrBits):                                    *)
(* n / Unit is what the arithmetic would give without rounding, e is the   *)
(* rounding error the double carries.  Every operation of the code on      *)
(* floats is an operator that rounds to the nearest double, ties to even,  *)
(* as the hardware does.  The progress field of a status response is a     *)
(* decimal text; the model counts it in hundredths (0.05 is 5).            *)
(* The task names are the strings of the code, None is "None".             *)
(* The ADetailer radio labels are written in ASCII: "none" (nashi),        *)
(* "face" (kao nomi), "hand" (te nomi), "face_hand" (kao to te).           *)
(***************************************************************************)
EXTENDS Integers, Sequences, FiniteSets

\* ------------------------------------------------------------------ bounds

\* Largest batch size (slider_batch) the model draws.
MaxBatch == 2

\* Largest job_count / job_no the status endpoint reports in the model.
MaxJobCount == 2

\* Largest number of images one img2img response carries in the model.
MaxImages == 1

\* ------------------------------------------------------- units and helpers

\* api_progress is a fraction; the model counts it in hundredths.
ProgressScale == 100

Max(a, b) == IF a >= b THEN a ELSE b

Min(a, b) == IF a <= b THEN a ELSE b

RECURSIVE Gcd(_, _)
Gcd(a, b) == IF b = 0 THEN a ELSE Gcd(b, a % b)

RECURSIVE LcmUpTo(_)
LcmUpTo(n) == IF n <= 1 THEN 1 ELSE (LcmUpTo(n - 1) * n) \div Gcd(LcmUpTo(n - 1), n)

\* Largest effective job count: max(job_count, EXPECTED_JOB_COUNT), EXPECTED <= 3.
MaxStages == Max(3, MaxJobCount)

StageLcm == LcmUpTo(MaxStages)

BatchLcm == LcmUpTo(MaxBatch)

\* ------------------------------------------------------------ Python floats

\* Denominator of the exact part of a float: it makes every quotient the code
\* forms from the model's inputs a whole number of 1 / Unit.
Unit == ProgressScale * StageLcm * BatchLcm

\* A double has 52 fraction bits.
FractionBits == 52

\* The rounding error of a float is counted in 1 / (Unit * 2^ErrBits): every
\* double of magnitude 2^LeastBinade or more is a whole number of 2^-ErrBits.
ErrBits == 62

LeastBinade == -10

GreatestBinade == 9

\* The float k.0
Whole(k) == <<k * Unit, 0>>

\* a < b on floats
Less(a, b) == a[1] < b[1] \/ (a[1] = b[1] /\ a[2] < b[2])

\* max(a, b) and min(a, b) on floats
FMax(a, b) == IF Less(a, b) THEN b ELSE a

FMin(a, b) == IF Less(b, a) THEN b ELSE a

\* 2^k mod m, for k up to ErrBits
Pow2Mod(k, m) ==
    LET h == k \div 3
    IN  ((((2^h % m) * (2^h % m)) % m) * (2^(k - 2 * h) % m)) % m

\* N / D >= 2^b, for N > 0
AtLeastPow2(N, D, b) == IF b >= 0 THEN N >= D * 2^b ELSE N * 2^(-b) >= D

\* N / D = 2^b
IsPow2(N, D, b) == IF b >= 0 THEN N = D * 2^b ELSE N * 2^(-b) = D

\* The b with 2^b <= N / D < 2^(b + 1), for N > 0
Binade(N, D) ==
    CHOOSE b \in LeastBinade .. GreatestBinade :
        AtLeastPow2(N, D, b) /\ ~AtLeastPow2(N, D, b + 1)

\* The error e of the double nearest to r = N / D + E / (D * 2^ErrBits), ties to
\* even, as an error against N / D: the double is N / D + e / (D * 2^ErrBits).
\* N > 0, and E is a rounding error (far less than 1 in absolute value).  The
\* doubles around r are the multiples of 2^-k; R is what r has above the
\* multiple below it, counted in 1 / (D * 2^ErrBits).
NearestPositive(N, E, D) ==
    LET b0  == Binade(N, D)
        b   == IF IsPow2(N, D, b0) /\ E < 0 THEN b0 - 1 ELSE b0
        k   == FractionBits - b
        G   == ErrBits - k
        Den == D * 2^G
        R   == (2^G * (((N % D) * Pow2Mod(k, D)) % D) + (E % Den)) % Den
        R2  == (2^G * (((N % (2 * D)) * Pow2Mod(k, 2 * D)) % (2 * D))
                   + (E % (2 * Den))) % (2 * Den)
    IN  IF R < Den - R THEN E - R
        ELSE IF R > Den - R THEN E + Den - R
        ELSE IF R2 < Den THEN E - R ELSE E + Den - R

\* The same for any sign; 0.0 is a double.
Nearest(N, E, D) ==
    IF N = 0 THEN E
    ELSE IF N > 0 THEN NearestPositive(N, E, D)
    ELSE -NearestPositive(-N, -E, D)

\* The double that r.json() reads for the decimal p / 100 of the response
\* body (the field 'progress', line 319): the double nearest to it.
Parsed(p) ==
    LET n == p * (Unit \div ProgressScale) IN <<n, Nearest(n, 0, Unit)>>

\* a + b and a - b on floats
Plus(a, b) == <<a[1] + b[1], Nearest(a[1] + b[1], a[2] + b[2], Unit)>>

Minus(a, b) == <<a[1] - b[1], Nearest(a[1] - b[1], a[2] - b[2], Unit)>>

\* a / k for an int k > 0 that divides the exact part of a
DividedBy(a, k) == <<a[1] \div k, Nearest(a[1], a[2], k * Unit) \div k>>

\* a * m for an int m > 0
Times(a, m) == <<a[1] * m, Nearest(a[1] * m, a[2] * m, Unit)>>

\* a / 0.5: a division by a power of two is exact
DividedByHalf(a) == <<a[1] * 2, a[2] * 2>>

\* int(a): the integer part, towards zero
Truncated(a) ==
    IF Less(a, Whole(0))
    THEN -((-a[1]) \div Unit) + (IF a[1] % Unit = 0 /\ a[2] > 0 THEN 1 ELSE 0)
    ELSE (a[1] \div Unit) - (IF a[1] % Unit = 0 /\ a[2] < 0 THEN 1 ELSE 0)

\* The exact part of n percentage points, of a float that is a percentage.
Pct(n) == n * Unit

\* ------------------------------------------------------------------- state

VARIABLES
    \* module globals (lines 177-182)
    CURRENT_TASK, CURRENT_BATCH_INDEX, TOTAL_BATCH_COUNT, EXPECTED_JOB_COUNT,
    LAST_BATCH_INDEX, LAST_PROGRESS,
    \* poll_status, per listener: the position of its call and the locals
    ppc, is_generating, data, job_no, job_count,
    current_image_progress, raw_percent, current_percent, val,
    \* cleanup_sketch / fix_face_only, per running handler: which of the two it
    \* is, its position, its arguments and its locals
    pipeline, bpc, args, i, gen_images, parameters_list,
    \* the img2img requests a handler has issued in its current call
    requests,
    \* history: the number of completed requests of a handler when
    \* interrupt_generation set the flag between a response of the handler and
    \* its next request (-1: it has not)
    cancelledAfter,
    \* history: the index of the request of a handler that was in flight when
    \* interrupt_generation set the flag (-1: none was)
    cancelledDuring,
    \* history: the values set_model_if_needed has returned to a handler in
    \* its current call (the callers do not keep them)
    set_model_returned,
    \* history: the number of completed requests of a handler when
    \* interrupt_generation returned its error string between a response of the
    \* handler and its next request (-1: it has not)
    failedAfter,
    \* the way a handler has left its loop or its preparation, which decides
    \* the final yield it makes: "completed" (range exhausted), "cancelled"
    \* (break), "no_image" (the test of line 512 / 625), or the exception e its
    \* except block has caught, named by its message ("none": none of these)
    outcome,
    \* the answer to the last request of a handler: "200", or one of the
    \* answers that make it raise ("none": no request has been answered)
    res,
    \* the outputs since the last click: the last yield of a handler (the
    \* lists, the state of the button, and text: the metadata output is the
    \* string "" and not a list), how a handler ended, and the message of the
    \* last exception an except block has logged
    yielded, ended, logged

globals == <<CURRENT_TASK, CURRENT_BATCH_INDEX, TOTAL_BATCH_COUNT, EXPECTED_JOB_COUNT,
             LAST_BATCH_INDEX, LAST_PROGRESS>>

pollLocals == <<ppc, is_generating, data, job_no, job_count,
                current_image_progress, raw_percent, current_percent, val>>

handlerLocals == <<pipeline, bpc, args, i, gen_images, parameters_list, requests,
                   cancelledAfter, cancelledDuring, set_model_returned,
                   failedAfter, outcome, res>>

batchLocals == <<handlerLocals, yielded, ended, logged>>

vars == <<globals, pollLocals, batchLocals>>

\* ---------------------------------------------------------------- readings

\* data['progress'] values the status endpoint reports, in hundredths; the
\* endpoint is unreliable, so values outside [0, 1] are included.
ProgressValues == {-10, 0, 2, 5, 30, 50, 75, 100, 120}

\* state['job_no'] values (a stale or erratic index, possibly beyond job_count)
JobNos == -1 .. MaxJobCount

\* state['job_count'] values (0 stands for a missing or zero field)
JobCounts == 0 .. MaxJobCount

\* The readings drawn where the handlers and the poll interleave freely.
FewProgressValues == {0, 20, 35, 40, 100}

FewJobNos == {0, 1}

FewJobCounts == {1}

\* ------------------------------------------------------- job status normalizer

\* state.get('job_count') or 1
JobCountOr1(jc) == IF jc = 0 THEN 1 ELSE jc

\* Variant: the guard applied on every image of the batch.
GuardedJobNo_AnyImage(cbi, p, jn) == IF p < 5 /\ jn > 0 THEN 0 ELSE jn

\* The first-image guard on job_no.
GuardedJobNo(cbi, p, jn) == IF cbi = 0 /\ p < 5 /\ jn > 0 THEN 0 ELSE jn

\* The float 0.5
Half == <<Unit \div 2, 0>>

\* Variant: the fraction taken over its whole range.
FaceFixProgress_WholeRange(p, jn) == IF jn = 0 THEN Whole(0) ELSE Parsed(p)

\* (api_progress - 0.5) / 0.5 for face_fix once job_no is not 0, before the clamp.
FaceFixProgress(p, jn) ==
    IF jn = 0 THEN Whole(0) ELSE DividedByHalf(Minus(Parsed(p), Half))

\* Variant: the reported job_count alone gives the number of stages.
StagedProgress_ReportedCount(p, jn, jc, expected) ==
    LET actual_job_count == jc
        safe_job_no == Min(jn, actual_job_count - 1)
    IN  DividedBy(Plus(Whole(safe_job_no), Parsed(p)), Max(1, actual_job_count))

\* (safe_job_no + api_progress) / max(1, actual_job_count), before the clamp.
StagedProgress(p, jn, jc, expected) ==
    LET actual_job_count == Max(jc, expected)
        safe_job_no == Min(jn, actual_job_count - 1)
    IN  DividedBy(Plus(Whole(safe_job_no), Parsed(p)), Max(1, actual_job_count))

\* Variant: no clamp.
Clamp01_Unclamped(x) == x

\* max(0.0, min(1.0, current_image_progress))
Clamp01(x) == FMax(Whole(0), FMin(Whole(1), x))

ImageProgress(task, p, jn, jc, expected) ==
    Clamp01(IF task = "face_fix" THEN FaceFixProgress(p, jn)
                                 ELSE StagedProgress(p, jn, jc, expected))

\* (CURRENT_BATCH_INDEX + current_image_progress) / max(1, TOTAL_BATCH_COUNT) * 100.0
RawPercent(cbi, cip, total) ==
    Times(DividedBy(Plus(Whole(cbi), cip), Max(1, total)), ProgressScale)

\* Lines 330-345 for every reading the model draws (fraction p, guarded job_no
\* jn, job_count jc) and every value of the globals read there (CURRENT_TASK t,
\* EXPECTED_JOB_COUNT e), computed once.
Normalized ==
    [t \in {"None", "cleanup", "face_fix"} |->
      [p \in ProgressValues \cup FewProgressValues |->
        [jn \in JobNos |-> [jc \in 1 .. MaxJobCount |-> [e \in 1 .. MaxStages |->
          ImageProgress(t, p, jn, jc, e)]]]]]

\* The per-image progresses of Normalized.
ImageProgresses ==
    {Normalized[t][p][jn][jc][e] :
        t \in {"None", "cleanup", "face_fix"},
        p \in ProgressValues \cup FewProgressValues,
        jn \in JobNos, jc \in 1 .. MaxJobCount, e \in 1 .. MaxStages}

\* Line 348 for every per-image progress and every value of the globals read
\* there (CURRENT_BATCH_INDEX c, TOTAL_BATCH_COUNT n), computed once.
RawPercents ==
    [c \in 0 .. MaxBatch - 1 |-> [n \in 1 .. MaxBatch |->
      [cip \in ImageProgresses |-> RawPercent(c, cip, n)]]]

\* ---------------------------------------------------- batch progress aggregator

\* Variant: on the same image the percent never goes down.
AcceptedPercent_KeepMax(lbi, cbi, last, raw) ==
    IF lbi = cbi THEN FMax(raw, last) ELSE raw

\* Variant: the rule applied whatever image the previous percent was for.
AcceptedPercent_NoReset(lbi, cbi, last, raw) ==
    IF Less(raw, last)
    THEN IF Less(Minus(last, raw), Whole(10)) THEN last ELSE raw
    ELSE raw

\* Variant: a noise threshold of 5 points.
AcceptedPercent_ThresholdFive(lbi, cbi, last, raw) ==
    IF lbi = cbi
    THEN IF Less(raw, last)
         THEN IF Less(Minus(last, raw), Whole(5)) THEN last ELSE raw
         ELSE raw
    ELSE raw

\* The anti-regression rule: the percent accepted for raw, given the previous one.
AcceptedPercent(lbi, cbi, last, raw) ==
    IF lbi = cbi
    THEN IF Less(raw, last)
         THEN IF Less(Minus(last, raw), Whole(10)) THEN last ELSE raw
         ELSE raw
    ELSE raw

\* Variant: no cap at 99.
DisplayPercent_NoCap(x) == FMax(Whole(0), x)

\* min(99.0, max(0.0, current_percent))
DisplayPercent(x) == FMin(Whole(99), FMax(Whole(0), x))

\* 100 if (not is_generating and LAST_PROGRESS > 0) else int(LAST_PROGRESS)
RenderedVal(gen, last) == IF ~gen /\ Less(Whole(0), last) THEN 100 ELSE Truncated(last)


\* ------------------------------------------------------------------ inputs

AdModes == {"none", "face", "hand", "face_hand"}

Seeds == {-1, 100}

BatchCounts == 1 .. MaxBatch

\* How many images one img2img response carries.
ImageCounts == 0 .. MaxImages

\* The calls of the two generator handlers (the listeners chained to the
\* clicks of lines 916 and 969) that are pending or running: at most two, of
\* one pipeline or of both.  Neither function tests whether a call is running.
Handlers == {1, 2}

Pipelines == {"cleanup", "face_fix"}

\* The two listeners of poll_status: the tick of the timer (line 1017) and the
\* click on the refresh button (line 1019).  Both are listeners of one function
\* and the program is launched with the default queue (line 1023), which
\* serves one call of a function at a time: a call begins when no other call
\* of poll_status is under way.
Pollers == {"tick", "click"}

NoData == [progress |-> 0, job_no |-> 0, job_count |-> 0]

NoYield == [by |-> 0, images |-> << >>, params |-> << >>, interactive |-> TRUE,
            text |-> FALSE]

NoEnd == [by |-> 0, how |-> "none"]

NoArgs == [batch_count |-> 1, seed |-> -1]

\* -------------------------------------------------------------------- Init

Init ==
    /\ CURRENT_TASK = "None"
    /\ CURRENT_BATCH_INDEX = 0
    /\ TOTAL_BATCH_COUNT = 1
    /\ EXPECTED_JOB_COUNT = 1
    /\ LAST_BATCH_INDEX = -1
    /\ LAST_PROGRESS = Whole(0)
    /\ ppc = [q \in Pollers |-> "idle"]
    /\ is_generating = [q \in Pollers |-> FALSE]
    /\ data = [q \in Pollers |-> NoData]
    /\ job_no = [q \in Pollers |-> 0]
    /\ job_count = [q \in Pollers |-> 1]
    /\ current_image_progress = [q \in Pollers |-> Whole(0)]
    /\ raw_percent = [q \in Pollers |-> Whole(0)]
    /\ current_percent = [q \in Pollers |-> Whole(0)]
    /\ val = [q \in Pollers |-> 0]
    /\ pipeline = [h \in Handlers |-> "None"]
    /\ bpc = [h \in Handlers |-> "idle"]
    /\ args = [h \in Handlers |-> NoArgs]
    /\ i = [h \in Handlers |-> 0]
    /\ gen_images = [h \in Handlers |-> << >>]
    /\ parameters_list = [h \in Handlers |-> << >>]
    /\ requests = [h \in Handlers |-> << >>]
    /\ cancelledAfter = [h \in Handlers |-> -1]
    /\ cancelledDuring = [h \in Handlers |-> -1]
    /\ set_model_returned = [h \in Handlers |-> << >>]
    /\ failedAfter = [h \in Handlers |-> -1]
    /\ outcome = [h \in Handlers |-> "none"]
    /\ res = [h \in Handlers |-> "none"]
    /\ yielded = NoYield
    /\ ended = NoEnd
    /\ logged = "none"

\* ------------------------------------------------------------- poll_status

\* A call of poll_status runs in a worker thread beside the handlers and the
\* listeners of the other functions.  The interpreter hands over between threads where a call
\* returns, not inside a run of loads, comparisons, arithmetic and stores, so
\* each action below is one such run: the globals it reads are read together,
\* and the actions of other threads come between two of them.

\* Lines 305-311: the call is taken from the queue, check_server_status() and
\* the snapshot of CURRENT_TASK.
PollBegin(q) ==
    /\ ppc[q] = "idle"
    /\ \A r \in Pollers \ {q} : ppc[r] = "idle"
    /\ \E up \in BOOLEAN : ppc' = [ppc EXCEPT ![q] = IF up THEN "get" ELSE "render"]
    /\ is_generating' = [is_generating EXCEPT ![q] = (CURRENT_TASK # "None")]
    /\ UNCHANGED <<data, job_no, job_count, current_image_progress, raw_percent,
                   current_percent, val>>
    /\ UNCHANGED <<globals, batchLocals>>

\* Variant: a failed status request clears the stored percent.
PollGetFails_Resets(q) ==
    /\ ppc[q] = "get"
    /\ ppc' = [ppc EXCEPT ![q] = "render"]
    /\ LAST_PROGRESS' = Whole(0)
    /\ UNCHANGED <<is_generating, data, job_no, job_count, current_image_progress,
                   raw_percent, current_percent, val>>
    /\ UNCHANGED <<CURRENT_TASK, CURRENT_BATCH_INDEX, TOTAL_BATCH_COUNT,
                   EXPECTED_JOB_COUNT, LAST_BATCH_INDEX>>
    /\ UNCHANGED batchLocals

\* Lines 315-316 failing: the GET raises (caught at line 371) or is not a 200.
PollGetFails(q) ==
    /\ ppc[q] = "get"
    /\ ppc' = [ppc EXCEPT ![q] = "render"]
    /\ UNCHANGED <<is_generating, data, job_no, job_count, current_image_progress,
                   raw_percent, current_percent, val>>
    /\ UNCHANGED <<globals, batchLocals>>

\* Lines 315-345: the status response arrives (progress p, job_no jn, job_count
\* jc); the guard of line 327 reads CURRENT_BATCH_INDEX, and the per-image
\* progress is computed from the reading, CURRENT_TASK (line 335) and
\* EXPECTED_JOB_COUNT (line 341, read before the first call of max).
PollGet(q, PV, JN, JC) ==
    /\ ppc[q] = "get"
    /\ \E p \in PV, jn \in JN, jc \in JC :
         LET gjn == GuardedJobNo(CURRENT_BATCH_INDEX, p, jn)
         IN  IF p * 10 > 1 \/ is_generating[q]
             THEN /\ data' = [data EXCEPT ![q] =
                                 [progress |-> p, job_no |-> jn, job_count |-> jc]]
                  /\ job_count' = [job_count EXCEPT ![q] = JobCountOr1(jc)]
                  /\ job_no' = [job_no EXCEPT ![q] = gjn]
                  /\ current_image_progress' =
                         [current_image_progress EXCEPT ![q] =
                             Normalized[CURRENT_TASK][p][gjn][JobCountOr1(jc)]
                                       [EXPECTED_JOB_COUNT]]
                  /\ ppc' = [ppc EXCEPT ![q] = "raw"]
             ELSE /\ UNCHANGED <<data, job_no, job_count, current_image_progress>>
                  /\ ppc' = [ppc EXCEPT ![q] = "render"]
    /\ UNCHANGED <<is_generating, raw_percent, current_percent, val>>
    /\ UNCHANGED <<globals, batchLocals>>

\* Line 348 up to the call of max: CURRENT_BATCH_INDEX and TOTAL_BATCH_COUNT are
\* read, for the second time in the call, and give the raw batch percent.  The
\* reading is not used after this.
PollRaw(q) ==
    /\ ppc[q] = "raw"
    /\ raw_percent' = [raw_percent EXCEPT ![q] =
                          RawPercents[CURRENT_BATCH_INDEX][TOTAL_BATCH_COUNT]
                                     [current_image_progress[q]]]
    /\ ppc' = [ppc EXCEPT ![q] = "rule"]
    /\ data' = [data EXCEPT ![q] = NoData]
    /\ job_no' = [job_no EXCEPT ![q] = 0]
    /\ job_count' = [job_count EXCEPT ![q] = 1]
    /\ UNCHANGED <<is_generating, current_image_progress, current_percent, val>>
    /\ UNCHANGED <<globals, batchLocals>>

\* Lines 351-365: the anti-regression rule, on the LAST_BATCH_INDEX,
\* CURRENT_BATCH_INDEX and LAST_PROGRESS found now, and the store to
\* LAST_BATCH_INDEX of its last branch.
PollRule(q) ==
    /\ ppc[q] = "rule"
    /\ current_percent' = [current_percent EXCEPT ![q] =
                              AcceptedPercent(LAST_BATCH_INDEX, CURRENT_BATCH_INDEX,
                                              LAST_PROGRESS, raw_percent[q])]
    /\ LAST_BATCH_INDEX' = CURRENT_BATCH_INDEX
    /\ ppc' = [ppc EXCEPT ![q] = "store"]
    /\ UNCHANGED <<is_generating, data, job_no, job_count, current_image_progress,
                   raw_percent, val>>
    /\ UNCHANGED <<CURRENT_TASK, CURRENT_BATCH_INDEX, TOTAL_BATCH_COUNT,
                   EXPECTED_JOB_COUNT, LAST_PROGRESS>>
    /\ UNCHANGED batchLocals

\* Lines 367-370: the clamp (two calls) and the store to LAST_PROGRESS of what
\* the rule accepted.
PollStore(q) ==
    /\ ppc[q] = "store"
    /\ LAST_PROGRESS' = DisplayPercent(current_percent[q])
    /\ ppc' = [ppc EXCEPT ![q] = "render"]
    /\ current_image_progress' = [current_image_progress EXCEPT ![q] = Whole(0)]
    /\ current_percent' = [current_percent EXCEPT ![q] = Whole(0)]
    /\ UNCHANGED <<is_generating, data, job_no, job_count, raw_percent, val>>
    /\ UNCHANGED <<CURRENT_TASK, CURRENT_BATCH_INDEX, TOTAL_BATCH_COUNT,
                   EXPECTED_JOB_COUNT, LAST_BATCH_INDEX>>
    /\ UNCHANGED batchLocals

\* Line 374: the rendered percentage.
PollRender(q) ==
    /\ ppc[q] = "render"
    /\ val' = [val EXCEPT ![q] = RenderedVal(is_generating[q], LAST_PROGRESS)]
    /\ ppc' = [ppc EXCEPT ![q] = "return"]
    /\ raw_percent' = [raw_percent EXCEPT ![q] = Whole(0)]
    /\ UNCHANGED <<is_generating, data, job_no, job_count, current_image_progress,
                   current_percent>>
    /\ UNCHANGED <<globals, batchLocals>>

\* Lines 407-413: the return; the locals are gone.
PollReturn(q) ==
    /\ ppc[q] = "return"
    /\ ppc' = [ppc EXCEPT ![q] = "idle"]
    /\ is_generating' = [is_generating EXCEPT ![q] = FALSE]
    /\ val' = [val EXCEPT ![q] = 0]
    /\ UNCHANGED <<data, job_no, job_count, current_image_progress, raw_percent,
                   current_percent>>
    /\ UNCHANGED <<globals, batchLocals>>

\* --------------------------------------------------- the generation orchestrator

\* EXPECTED_JOB_COUNT as the pipeline t sets it (lines 503-507, line 620).
ExpectedJobCount(t, ad_mode) ==
    IF t = "face_fix" THEN 2
    ELSE IF ad_mode = "face" \/ ad_mode = "hand" THEN 2
    ELSE IF ad_mode = "face_hand" THEN 3
    ELSE 1

\* Variant: the base seed sent with every request.
ReqSeed_Fixed(seed, k) == seed

\* req_seed of the request for in-batch index k.
ReqSeed(seed, k) == IF seed # -1 THEN seed + k ELSE seed

Running(h) == bpc[h] # "idle"

\* The handler h is past its connectivity check and has not ended: it is a
\* batch that has begun.
Begun(h) == bpc[h] \notin {"idle", "called"}

\* The click on the button of pipeline t: reset_ui_state runs and disables the
\* button, then the call of the handler is pending; h is the first free place
\* among the pending and running calls.  The records of the outputs start
\* afresh with the click.
reset_ui_state(h, t) ==
    /\ ~Running(h)
    /\ \A g \in Handlers : g < h => Running(g)
    /\ CURRENT_BATCH_INDEX' = 0
    /\ LAST_PROGRESS' = Whole(0)
    /\ LAST_BATCH_INDEX' = -1
    /\ pipeline' = [pipeline EXCEPT ![h] = t]
    /\ bpc' = [bpc EXCEPT ![h] = "called"]
    /\ yielded' = [by |-> h, images |-> << >>, params |-> << >>,
                   interactive |-> FALSE, text |-> FALSE]
    /\ ended' = NoEnd
    /\ logged' = "none"
    /\ UNCHANGED <<CURRENT_TASK, TOTAL_BATCH_COUNT, EXPECTED_JOB_COUNT>>
    /\ UNCHANGED <<args, i, gen_images, parameters_list, requests, cancelledAfter,
                   cancelledDuring, set_model_returned, failedAfter, outcome, res>>
    /\ UNCHANGED pollLocals

\* The handler h is over: its locals are gone.
Return(h) ==
    /\ pipeline' = [pipeline EXCEPT ![h] = "None"]
    /\ bpc' = [bpc EXCEPT ![h] = "idle"]
    /\ args' = [args EXCEPT ![h] = NoArgs]
    /\ i' = [i EXCEPT ![h] = 0]
    /\ gen_images' = [gen_images EXCEPT ![h] = << >>]
    /\ parameters_list' = [parameters_list EXCEPT ![h] = << >>]
    /\ requests' = [requests EXCEPT ![h] = << >>]
    /\ cancelledAfter' = [cancelledAfter EXCEPT ![h] = -1]
    /\ cancelledDuring' = [cancelledDuring EXCEPT ![h] = -1]
    /\ set_model_returned' = [set_model_returned EXCEPT ![h] = << >>]
    /\ failedAfter' = [failedAfter EXCEPT ![h] = -1]
    /\ outcome' = [outcome EXCEPT ![h] = "none"]
    /\ res' = [res EXCEPT ![h] = "none"]

\* The handler ends with an exception that leaves it: nothing is yielded or
\* logged and CURRENT_TASK is not written.
Raise(h, how) ==
    /\ ended' = [by |-> h, how |-> how]
    /\ Return(h)
    /\ UNCHANGED <<CURRENT_TASK, yielded, logged>>

\* Variant: the store to CURRENT_TASK made before the connectivity check.
BatchStart_StoreFirst(h, BC, SD) ==
    /\ bpc[h] = "called"
    /\ CURRENT_TASK' = pipeline[h]
    /\ \/ /\ ended' = [by |-> h, how |-> "unreachable"]
          /\ Return(h)
          /\ UNCHANGED <<yielded, logged>>
       \/ /\ \E bc \in BC, sd \in SD :
                args' = [args EXCEPT ![h] = [batch_count |-> bc, seed |-> sd]]
          /\ bpc' = [bpc EXCEPT ![h] = "init"]
          /\ UNCHANGED <<pipeline, i, gen_images, parameters_list, requests,
                         cancelledAfter, cancelledDuring, set_model_returned,
                         failedAfter, outcome, res, yielded, ended, logged>>
    /\ UNCHANGED <<CURRENT_BATCH_INDEX, TOTAL_BATCH_COUNT, EXPECTED_JOB_COUNT,
                   LAST_BATCH_INDEX, LAST_PROGRESS>>
    /\ UNCHANGED pollLocals

\* The handler is called with batch_count and seed; the connectivity check, then
\* the store to CURRENT_TASK.  An unreachable server raises gr.Error before any
\* store.
BatchStart(h, BC, SD) ==
    /\ bpc[h] = "called"
    /\ \/ Raise(h, "unreachable")
       \/ /\ \E bc \in BC, sd \in SD :
                args' = [args EXCEPT ![h] = [batch_count |-> bc, seed |-> sd]]
          /\ CURRENT_TASK' = pipeline[h]
          /\ bpc' = [bpc EXCEPT ![h] = "init"]
          /\ UNCHANGED <<pipeline, i, gen_images, parameters_list, requests,
                         cancelledAfter, cancelledDuring, set_model_returned,
                         failedAfter, outcome, res, yielded, ended, logged>>
    /\ UNCHANGED <<CURRENT_BATCH_INDEX, TOTAL_BATCH_COUNT, EXPECTED_JOB_COUNT,
                   LAST_BATCH_INDEX, LAST_PROGRESS>>
    /\ UNCHANGED pollLocals

\* Variant: an initialisation block that leaves the two progress globals alone.
BatchInit_NoReset(h, AM) ==
    /\ bpc[h] = "init"
    /\ TOTAL_BATCH_COUNT' = args[h].batch_count
    /\ CURRENT_BATCH_INDEX' = 0
    /\ UNCHANGED <<LAST_BATCH_INDEX, LAST_PROGRESS>>
    /\ \E am \in AM :
         EXPECTED_JOB_COUNT' = ExpectedJobCount(pipeline[h], am)
    /\ bpc' = [bpc EXCEPT ![h] = "prepare"]
    /\ UNCHANGED CURRENT_TASK
    /\ UNCHANGED <<pipeline, args, i, gen_images, parameters_list, requests,
                   cancelledAfter, cancelledDuring, set_model_returned, failedAfter,
                   outcome, res, yielded, ended, logged>>
    /\ UNCHANGED pollLocals

\* The rest of the initialisation block; ad_mode is the argument of
\* cleanup_sketch, read here only.
BatchInit(h, AM) ==
    /\ bpc[h] = "init"
    /\ TOTAL_BATCH_COUNT' = args[h].batch_count
    /\ CURRENT_BATCH_INDEX' = 0
    /\ LAST_BATCH_INDEX' = -1
    /\ LAST_PROGRESS' = Whole(0)
    /\ \E am \in AM :
         EXPECTED_JOB_COUNT' = ExpectedJobCount(pipeline[h], am)
    /\ bpc' = [bpc EXCEPT ![h] = "prepare"]
    /\ UNCHANGED CURRENT_TASK
    /\ UNCHANGED <<pipeline, args, i, gen_images, parameters_list, requests,
                   cancelledAfter, cancelledDuring, set_model_returned, failedAfter,
                   outcome, res, yielded, ended, logged>>
    /\ UNCHANGED pollLocals

\* What set_model_if_needed returns when it does not raise: True, or False
\* after an exception of one of its requests (lines 486-488).
ModelReturns == {TRUE, FALSE}

\* set_model_if_needed() and what follows its return up to the next store or
\* the loop: the image_path test with its store to CURRENT_TASK (line 513 /
\* 626), or the preparation inside try (resize_for_sd, Image.open).
BatchPrepare(h, MR) ==
    /\ bpc[h] = "prepare"
    /\ \/ \* set_model_if_needed raises gr.Error (model not found): it propagates
          Raise(h, "model_error")
       \/ \* it returns r (True, or False after a swallowed error), which the
          \* caller drops
          /\ \E r \in MR :
               set_model_returned' = [set_model_returned EXCEPT ![h] = <<r>>]
          /\ \/ \* image_path is None: the task is cleared, the yield of the
                \* next line is to come
                /\ CURRENT_TASK' = "None"
                /\ outcome' = [outcome EXCEPT ![h] = "no_image"]
                /\ bpc' = [bpc EXCEPT ![h] = "yield"]
             \/ \* the image cannot be resized or opened: the exception is
                \* raised inside try, the except block is to come
                /\ outcome' = [outcome EXCEPT ![h] = "image_error"]
                /\ bpc' = [bpc EXCEPT ![h] = "except"]
                /\ UNCHANGED CURRENT_TASK
             \/ \* the image is ready: on to the loop
                /\ bpc' = [bpc EXCEPT ![h] = "loop"]
                /\ UNCHANGED <<CURRENT_TASK, outcome>>
          /\ UNCHANGED <<pipeline, args, i, gen_images, parameters_list, requests,
                         cancelledAfter, cancelledDuring, failedAfter, res, yielded,
                         ended, logged>>
    /\ UNCHANGED <<CURRENT_BATCH_INDEX, TOTAL_BATCH_COUNT, EXPECTED_JOB_COUNT,
                   LAST_BATCH_INDEX, LAST_PROGRESS>>
    /\ UNCHANGED pollLocals

\* Variant: a loop head without the cancellation test.
LoopTop_NoCancelTest(h) ==
    /\ bpc[h] = "loop"
    /\ IF i[h] >= args[h].batch_count
       THEN /\ bpc' = [bpc EXCEPT ![h] = "exhausted"]
            /\ UNCHANGED CURRENT_BATCH_INDEX
       ELSE /\ CURRENT_BATCH_INDEX' = i[h]
            /\ bpc' = [bpc EXCEPT ![h] = "issue"]
    /\ UNCHANGED <<CURRENT_TASK, TOTAL_BATCH_COUNT, EXPECTED_JOB_COUNT,
                   LAST_BATCH_INDEX, LAST_PROGRESS>>
    /\ UNCHANGED <<pipeline, args, i, gen_images, parameters_list, requests,
                   cancelledAfter, cancelledDuring, set_model_returned, failedAfter,
                   outcome, res, yielded, ended, logged>>
    /\ UNCHANGED pollLocals

\* Variant: a loop over range(int(batch_count) - 1).
LoopTop_ShortRange(h) ==
    /\ bpc[h] = "loop"
    /\ IF i[h] >= args[h].batch_count - 1
       THEN /\ bpc' = [bpc EXCEPT ![h] = "exhausted"]
            /\ UNCHANGED CURRENT_BATCH_INDEX
       ELSE IF CURRENT_TASK = "None"
       THEN /\ bpc' = [bpc EXCEPT ![h] = "broke"]
            /\ UNCHANGED CURRENT_BATCH_INDEX
       ELSE /\ CURRENT_BATCH_INDEX' = i[h]
            /\ bpc' = [bpc EXCEPT ![h] = "issue"]
    /\ UNCHANGED <<CURRENT_TASK, TOTAL_BATCH_COUNT, EXPECTED_JOB_COUNT,
                   LAST_BATCH_INDEX, LAST_PROGRESS>>
    /\ UNCHANGED <<pipeline, args, i, gen_images, parameters_list, requests,
                   cancelledAfter, cancelledDuring, set_model_returned, failedAfter,
                   outcome, res, yielded, ended, logged>>
    /\ UNCHANGED pollLocals

\* The head of one loop iteration: range(int(batch_count)) is exhausted, or the
\* cancellation test breaks, or CURRENT_BATCH_INDEX is stored.
LoopTop(h) ==
    /\ bpc[h] = "loop"
    /\ IF i[h] >= args[h].batch_count
       THEN /\ bpc' = [bpc EXCEPT ![h] = "exhausted"]
            /\ UNCHANGED CURRENT_BATCH_INDEX
       ELSE IF CURRENT_TASK = "None"
       THEN /\ bpc' = [bpc EXCEPT ![h] = "broke"]
            /\ UNCHANGED CURRENT_BATCH_INDEX
       ELSE /\ CURRENT_BATCH_INDEX' = i[h]
            /\ bpc' = [bpc EXCEPT ![h] = "issue"]
    /\ UNCHANGED <<CURRENT_TASK, TOTAL_BATCH_COUNT, EXPECTED_JOB_COUNT,
                   LAST_BATCH_INDEX, LAST_PROGRESS>>
    /\ UNCHANGED <<pipeline, args, i, gen_images, parameters_list, requests,
                   cancelledAfter, cancelledDuring, set_model_returned, failedAfter,
                   outcome, res, yielded, ended, logged>>
    /\ UNCHANGED pollLocals

\* The payload is built and the img2img request is sent.
IssueRequest(h) ==
    /\ bpc[h] = "issue"
    /\ requests' = [requests EXCEPT ![h] =
                       Append(@, [i |-> i[h], seed |-> ReqSeed(args[h].seed, i[h])])]
    /\ bpc' = [bpc EXCEPT ![h] = "wait"]
    /\ UNCHANGED <<pipeline, args, i, gen_images, parameters_list, cancelledAfter,
                   cancelledDuring, set_model_returned, failedAfter, outcome, res,
                   yielded, ended, logged>>
    /\ UNCHANGED <<globals, pollLocals>>

\* m copies of x
RECURSIVE Repeat(_, _)
Repeat(x, m) == IF m = 0 THEN << >> ELSE <<x>> \o Repeat(x, m - 1)

\* Variant: the yield after a response carries the images of that response only.
ResponseOk_YieldsLatest(h, MS) ==
    /\ bpc[h] = "wait"
    /\ \E m \in MS :
         /\ gen_images' = [gen_images EXCEPT ![h] = @ \o Repeat(i[h], m)]
         /\ parameters_list' = [parameters_list EXCEPT ![h] = @ \o Repeat(i[h], m)]
         /\ yielded' = [by |-> h, images |-> Repeat(i[h], m),
                        params |-> Repeat(i[h], m), interactive |-> FALSE,
                        text |-> FALSE]
    /\ i' = [i EXCEPT ![h] = @ + 1]
    /\ res' = [res EXCEPT ![h] = "200"]
    /\ bpc' = [bpc EXCEPT ![h] = "loop"]
    /\ UNCHANGED <<pipeline, args, requests, cancelledAfter, cancelledDuring,
                   set_model_returned, failedAfter, outcome, ended, logged>>
    /\ UNCHANGED <<globals, pollLocals>>

\* Variant: one metadata string per response, whatever the number of images.
ResponseOk_OneInfoText(h, MS) ==
    /\ bpc[h] = "wait"
    /\ \E m \in MS :
         /\ gen_images' = [gen_images EXCEPT ![h] = @ \o Repeat(i[h], m)]
         /\ parameters_list' = [parameters_list EXCEPT ![h] = Append(@, i[h])]
    /\ yielded' = [by |-> h, images |-> gen_images'[h],
                   params |-> parameters_list'[h], interactive |-> FALSE,
                   text |-> FALSE]
    /\ i' = [i EXCEPT ![h] = @ + 1]
    /\ res' = [res EXCEPT ![h] = "200"]
    /\ bpc' = [bpc EXCEPT ![h] = "loop"]
    /\ UNCHANGED <<pipeline, args, requests, cancelledAfter, cancelledDuring,
                   set_model_returned, failedAfter, outcome, ended, logged>>
    /\ UNCHANGED <<globals, pollLocals>>

\* The request returns 200 with m images: they are appended and the lists
\* yielded with the button still disabled.
ResponseOk(h, MS) ==
    /\ bpc[h] = "wait"
    /\ \E m \in MS :
         /\ gen_images' = [gen_images EXCEPT ![h] = @ \o Repeat(i[h], m)]
         /\ parameters_list' = [parameters_list EXCEPT ![h] = @ \o Repeat(i[h], m)]
    /\ yielded' = [by |-> h, images |-> gen_images'[h],
                   params |-> parameters_list'[h], interactive |-> FALSE,
                   text |-> FALSE]
    /\ i' = [i EXCEPT ![h] = @ + 1]
    /\ res' = [res EXCEPT ![h] = "200"]
    /\ bpc' = [bpc EXCEPT ![h] = "loop"]
    /\ UNCHANGED <<pipeline, args, requests, cancelledAfter, cancelledDuring,
                   set_model_returned, failedAfter, outcome, ended, logged>>
    /\ UNCHANGED <<globals, pollLocals>>

\* The answers to a request that make the handler raise: a 422 whose body
\* names the missing ADetailer script (lines 580-581), or anything else that
\* is not a 200 that can be decoded (another status, a timeout, a bad body).
FailedResponses == {"422_adetailer", "error"}

\* Variant: one message for every failed request.
FailureOutcome_Generic(r) == "failed"

\* The message of the exception a failed request raises: that of the gr.Error
\* of line 581 / 688 for the missing ADetailer ("capability"), or that of any
\* other exception ("failed", for a status: "API Error: <status>").
FailureOutcome(r) == IF r = "422_adetailer" THEN "capability" ELSE "failed"

\* Variant: a failed request is sent again.
ResponseFails_Retry(h, FS) ==
    /\ bpc[h] = "wait"
    /\ bpc' = [bpc EXCEPT ![h] = "issue"]
    /\ UNCHANGED <<pipeline, args, i, gen_images, parameters_list, requests,
                   cancelledAfter, cancelledDuring, set_model_returned, failedAfter,
                   outcome, res, yielded, ended, logged>>
    /\ UNCHANGED <<globals, pollLocals>>

\* The request fails in one of the ways FS: the exception e is raised inside
\* try (by requests.post, or at line 581 or 596) and the except block is to
\* come; nothing is written yet.
ResponseFails(h, FS) ==
    /\ bpc[h] = "wait"
    /\ \E r \in FS :
         /\ res' = [res EXCEPT ![h] = r]
         /\ outcome' = [outcome EXCEPT ![h] = FailureOutcome(r)]
    /\ bpc' = [bpc EXCEPT ![h] = "except"]
    /\ UNCHANGED <<pipeline, args, i, gen_images, parameters_list, requests,
                   cancelledAfter, cancelledDuring, set_model_returned, failedAfter,
                   yielded, ended, logged>>
    /\ UNCHANGED <<globals, pollLocals>>

\* Line 604 / 712, the first of the except block: the task is cleared.
ExceptStore(h) ==
    /\ bpc[h] = "except"
    /\ CURRENT_TASK' = "None"
    /\ bpc' = [bpc EXCEPT ![h] = "log"]
    /\ UNCHANGED <<CURRENT_BATCH_INDEX, TOTAL_BATCH_COUNT, EXPECTED_JOB_COUNT,
                   LAST_BATCH_INDEX, LAST_PROGRESS>>
    /\ UNCHANGED <<pipeline, args, i, gen_images, parameters_list, requests,
                   cancelledAfter, cancelledDuring, set_model_returned, failedAfter,
                   outcome, res, yielded, ended, logged>>
    /\ UNCHANGED pollLocals

\* Line 605 / 713: add_log writes the message of the exception to the log the
\* page shows.
ExceptLog(h) ==
    /\ bpc[h] = "log"
    /\ logged' = outcome[h]
    /\ bpc' = [bpc EXCEPT ![h] = "yield"]
    /\ UNCHANGED <<pipeline, args, i, gen_images, parameters_list, requests,
                   cancelledAfter, cancelledDuring, set_model_returned, failedAfter,
                   outcome, res, yielded, ended>>
    /\ UNCHANGED <<globals, pollLocals>>

\* After the loop (range exhausted, or break), lines 598-600 / 706-708: the
\* completion is logged and the task is cleared; the final yield is to come.
Finish(h) ==
    /\ bpc[h] \in {"exhausted", "broke"}
    /\ CURRENT_TASK' = "None"
    /\ outcome' = [outcome EXCEPT ![h] =
                      IF bpc[h] = "broke" THEN "cancelled" ELSE "completed"]
    /\ bpc' = [bpc EXCEPT ![h] = "yield"]
    /\ UNCHANGED <<CURRENT_BATCH_INDEX, TOTAL_BATCH_COUNT, EXPECTED_JOB_COUNT,
                   LAST_BATCH_INDEX, LAST_PROGRESS>>
    /\ UNCHANGED <<pipeline, args, i, gen_images, parameters_list, requests,
                   cancelledAfter, cancelledDuring, set_model_returned, failedAfter,
                   res, yielded, ended, logged>>
    /\ UNCHANGED pollLocals

\* What the last yield of the handler h carries when it has left its loop or
\* its preparation in the way how: the lists of the results after
\* the loop (line 601 / 709), empty lists after an exception (line 606 / 714),
\* an empty list and the string "" when there is no image (line 514 / 627); the
\* button is re-enabled in each.
FinalYieldOf(h, how) ==
    IF how \in {"completed", "cancelled"}
    THEN [by |-> h, images |-> gen_images[h], params |-> parameters_list[h],
          interactive |-> TRUE, text |-> FALSE]
    ELSE [by |-> h, images |-> << >>, params |-> << >>, interactive |-> TRUE,
          text |-> (how = "no_image")]

\* The last yield of the handler: the generator is suspended at it.
FinalYield(h) ==
    /\ bpc[h] = "yield"
    /\ yielded' = FinalYieldOf(h, outcome[h])
    /\ bpc' = [bpc EXCEPT ![h] = "end"]
    /\ UNCHANGED <<pipeline, args, i, gen_images, parameters_list, requests,
                   cancelledAfter, cancelledDuring, set_model_returned, failedAfter,
                   outcome, res, ended, logged>>
    /\ UNCHANGED <<globals, pollLocals>>

\* The generator is resumed after its last yield and ends (the return of line
\* 515 / 628, or the end of the function).
End(h) ==
    /\ bpc[h] = "end"
    /\ ended' = [by |-> h, how |-> outcome[h]]
    /\ Return(h)
    /\ UNCHANGED <<globals, pollLocals, yielded, logged>>

\* ------------------------------------------------------- interrupt_generation

\* A handler that has had a response and has not yet sent its next request.
BetweenImages(h) ==
    /\ bpc[h] \in {"loop", "issue"}
    /\ i[h] >= 1
    /\ i[h] < args[h].batch_count

\* Variant: the flag is set although the interrupt request raised.
InterruptFails_SetsFlag ==
    /\ CURRENT_TASK' = "None"
    /\ failedAfter' = [h \in Handlers |->
                          IF BetweenImages(h) THEN i[h] ELSE failedAfter[h]]
    /\ UNCHANGED <<CURRENT_BATCH_INDEX, TOTAL_BATCH_COUNT, EXPECTED_JOB_COUNT,
                   LAST_BATCH_INDEX, LAST_PROGRESS>>
    /\ UNCHANGED <<pipeline, bpc, args, i, gen_images, parameters_list, requests,
                   cancelledAfter, cancelledDuring, set_model_returned, outcome, res,
                   yielded, ended, logged>>
    /\ UNCHANGED pollLocals

\* The interrupt request raises: the flag is not set and the error string is
\* returned (to no output component: line 999).
InterruptFails ==
    /\ failedAfter' = [h \in Handlers |->
                          IF BetweenImages(h) THEN i[h] ELSE failedAfter[h]]
    /\ UNCHANGED globals
    /\ UNCHANGED <<pipeline, bpc, args, i, gen_images, parameters_list, requests,
                   cancelledAfter, cancelledDuring, set_model_returned, outcome, res,
                   yielded, ended, logged>>
    /\ UNCHANGED pollLocals

\* The interrupt request returns: CURRENT_TASK is cleared.
interrupt_generation ==
    /\ CURRENT_TASK' = "None"
    /\ cancelledAfter' = [h \in Handlers |->
                             IF BetweenImages(h) THEN i[h] ELSE cancelledAfter[h]]
    /\ cancelledDuring' = [h \in Handlers |->
                              IF bpc[h] = "wait" THEN i[h] ELSE cancelledDuring[h]]
    /\ UNCHANGED <<CURRENT_BATCH_INDEX, TOTAL_BATCH_COUNT, EXPECTED_JOB_COUNT,
                   LAST_BATCH_INDEX, LAST_PROGRESS>>
    /\ UNCHANGED <<pipeline, bpc, args, i, gen_images, parameters_list, requests,
                   set_model_returned, failedAfter, outcome, res, yielded, ended, logged>>
    /\ UNCHANGED pollLocals

\* ---------------------------------------------------------- specifications

Poll(q, PV, JN, JC) ==
    \/ PollBegin(q)
    \/ PollGetFails(q)
    \/ PollGet(q, PV, JN, JC)
    \/ PollRaw(q)
    \/ PollRule(q)
    \/ PollStore(q)
    \/ PollRender(q)
    \/ PollReturn(q)

Batch(h, BC, SD, AM, MR, MS, FS) ==
    \/ BatchStart(h, BC, SD)
    \/ BatchInit(h, AM)
    \/ BatchPrepare(h, MR)
    \/ LoopTop(h)
    \/ IssueRequest(h)
    \/ ResponseOk(h, MS)
    \/ ResponseFails(h, FS)
    \/ ExceptStore(h)
    \/ ExceptLog(h)
    \/ Finish(h)
    \/ FinalYield(h)
    \/ End(h)

\* What the interrupt request of line 295 does: it returns, or it raises (the
\* server cannot be reached).
InterruptOutcomes == {"returns", "raises"}

\* One call of interrupt_generation whose request does one of OS.
Interrupt(OS) ==
    \E o \in OS : IF o = "raises" THEN InterruptFails ELSE interrupt_generation

NoneRunning == \A g \in Handlers : ~Running(g)

\* The program: the listeners of the two buttons, the two listeners of
\* poll_status and the stop control, freely interleaved.
Next ==
    \/ \E q \in Pollers : Poll(q, FewProgressValues, FewJobNos, FewJobCounts)
    \/ \E h \in Handlers, t \in Pipelines : reset_ui_state(h, t)
    \/ \E h \in Handlers : Batch(h, BatchCounts, Seeds, AdModes, ModelReturns, ImageCounts, FailedResponses)
    \/ Interrupt(InterruptOutcomes)

Spec == Init /\ [][Next]_vars

\* One batch at a time (no click while a handler runs), with the timer and the
\* stop control; the refresh button is not clicked.
NextSolo ==
    \/ Poll("tick", FewProgressValues, FewJobNos, FewJobCounts)
    \/ \E t \in Pipelines : NoneRunning /\ reset_ui_state(1, t)
    \/ Batch(1, BatchCounts, {-1}, AdModes, {TRUE}, {1}, {"error"})
    \/ Interrupt({"returns"})

SpecSolo == Init /\ [][NextSolo]_vars

\* One batch at a time and the stop control, with any arguments and responses,
\* without the timer: poll_status writes nothing a handler reads.
NextBatch ==
    \/ \E t \in Pipelines : NoneRunning /\ reset_ui_state(1, t)
    \/ Batch(1, BatchCounts, Seeds, AdModes, ModelReturns, ImageCounts, FailedResponses)
    \/ Interrupt(InterruptOutcomes)

SpecBatch == Init /\ [][NextBatch]_vars

\* One batch at a time with a stop control whose interrupt request always
\* raises.
NextStopFails ==
    \/ \E t \in Pipelines : NoneRunning /\ reset_ui_state(1, t)
    \/ Batch(1, BatchCounts, Seeds, AdModes, ModelReturns, ImageCounts, FailedResponses)
    \/ Interrupt({"raises"})

SpecStopFails == Init /\ [][NextStopFails]_vars

\* The two listeners side by side and the stop control, without the timer.
NextHandlers ==
    \/ \E h \in Handlers, t \in Pipelines : reset_ui_state(h, t)
    \/ \E h \in Handlers : Batch(h, BatchCounts, {-1}, {"none"}, {TRUE}, {1}, {"error"})
    \/ Interrupt({"returns"})

SpecHandlers == Init /\ [][NextHandlers]_vars

\* The steps the handler h takes by itself once it has been called and has
\* passed the connectivity check: the generator is driven until it ends.
HandlerStep(h) ==
    \/ BatchInit(h, {"none"})
    \/ BatchPrepare(h, {TRUE})
    \/ LoopTop(h)
    \/ IssueRequest(h)
    \/ ExceptStore(h)
    \/ ExceptLog(h)
    \/ Finish(h)
    \/ FinalYield(h)
    \/ End(h)

\* The answer to the request in flight: a response, or the exception that
\* requests.post raises at the latest when API_TIMEOUT has passed.
Response(h) ==
    \/ ResponseOk(h, {1})
    \/ ResponseFails(h, {"error"})

\* SpecHandlers with handlers that keep running and requests that are answered.
SpecHandlersLive ==
    /\ Init
    /\ [][NextHandlers]_vars
    /\ \A h \in Handlers : WF_vars(HandlerStep(h)) /\ WF_vars(Response(h))

\* 0, 1, ..., n - 1
UpTo(n) == [k \in 1 .. n |-> k - 1]

\* The timer alone, with any status reading, started in a state the program is
\* in while image c of a batch of n is being generated and no poll has run yet
\* (active), or after the request for image c has failed (not active).
InitPoll ==
    /\ \E t \in Pipelines, n \in BatchCounts, c \in 0 .. MaxBatch - 1, am \in AdModes,
          active \in BOOLEAN :
         /\ c < n
         /\ CURRENT_TASK = IF active THEN t ELSE "None"
         /\ CURRENT_BATCH_INDEX = c
         /\ TOTAL_BATCH_COUNT = n
         /\ EXPECTED_JOB_COUNT = ExpectedJobCount(t, am)
         /\ pipeline = [h \in Handlers |-> IF h = 1 /\ active THEN t ELSE "None"]
         /\ bpc = [h \in Handlers |-> IF h = 1 /\ active THEN "wait" ELSE "idle"]
         /\ args = [h \in Handlers |-> IF h = 1 /\ active
                                       THEN [batch_count |-> n, seed |-> -1]
                                       ELSE NoArgs]
         /\ i = [h \in Handlers |-> IF h = 1 /\ active THEN c ELSE 0]
         /\ gen_images = [h \in Handlers |-> IF h = 1 /\ active THEN UpTo(c) ELSE << >>]
         /\ parameters_list = [h \in Handlers |->
                                  IF h = 1 /\ active THEN UpTo(c) ELSE << >>]
         /\ requests = [h \in Handlers |->
                           IF h = 1 /\ active
                           THEN [k \in 1 .. c + 1 |-> [i |-> k - 1, seed |-> -1]]
                           ELSE << >>]
         /\ yielded = IF active
                      THEN IF c > 0
                           THEN [by |-> 1, images |-> UpTo(c), params |-> UpTo(c),
                                 interactive |-> FALSE, text |-> FALSE]
                           ELSE [by |-> 1, images |-> << >>, params |-> << >>,
                                 interactive |-> FALSE, text |-> FALSE]
                      ELSE [by |-> 1, images |-> << >>, params |-> << >>,
                            interactive |-> TRUE, text |-> FALSE]
         /\ ended = IF active THEN NoEnd ELSE [by |-> 1, how |-> "failed"]
         /\ logged = IF active THEN "none" ELSE "failed"
         /\ res = [h \in Handlers |-> IF h = 1 /\ active /\ c > 0 THEN "200" ELSE "none"]
         /\ \E r \in ModelReturns :
              set_model_returned = [h \in Handlers |->
                                       IF h = 1 /\ active THEN <<r>> ELSE << >>]
    /\ LAST_BATCH_INDEX = -1
    /\ LAST_PROGRESS = Whole(0)
    /\ ppc = [q \in Pollers |-> "idle"]
    /\ is_generating = [q \in Pollers |-> FALSE]
    /\ data = [q \in Pollers |-> NoData]
    /\ job_no = [q \in Pollers |-> 0]
    /\ job_count = [q \in Pollers |-> 1]
    /\ current_image_progress = [q \in Pollers |-> Whole(0)]
    /\ raw_percent = [q \in Pollers |-> Whole(0)]
    /\ current_percent = [q \in Pollers |-> Whole(0)]
    /\ val = [q \in Pollers |-> 0]
    /\ cancelledAfter = [h \in Handlers |-> -1]
    /\ cancelledDuring = [h \in Handlers |-> -1]
    /\ failedAfter = [h \in Handlers |-> -1]
    /\ outcome = [h \in Handlers |-> "none"]

NextPoll == Poll("tick", ProgressValues, JobNos, JobCounts)

SpecPoll == InitPoll /\ [][NextPoll]_vars

\* The two listeners of poll_status, started as SpecPoll is: ticks of the timer
\* and clicks on the refresh button, served one call after the other.
NextPollers == \E q \in Pollers : Poll(q, FewProgressValues, FewJobNos, FewJobCounts)

SpecPollers == InitPoll /\ [][NextPollers]_vars

\* SpecPollers with the button of the other pipeline: it is clicked while the
\* batch waits for a response, reset_ui_state runs (a function of its own,
\* served beside poll_status) and the handler chained to it has not yet begun.
NextClick ==
    \/ \E q \in Pollers : Poll(q, FewProgressValues, FewJobNos, FewJobCounts)
    \/ \E t \in Pipelines : reset_ui_state(2, t)

SpecClick == InitPoll /\ [][NextClick]_vars

\* ------------------------------------------------------------------ claims

\* The step of poll_status that receives a reading and normalizes it.
NormalizeStep(q) == ppc[q] = "get" /\ ppc'[q] = "raw"

\* The step of poll_status that applies the anti-regression rule.
RuleStep(q) == ppc[q] = "rule" /\ ppc'[q] = "store"

\* The step of poll_status that stores LAST_PROGRESS.
StoreStep(q) == ppc[q] = "store" /\ ppc'[q] = "render"

\* The step of poll_status that computes the rendered percentage.
RenderStep(q) == ppc[q] = "render" /\ ppc'[q] = "return"

\* C1: while a batch is active and CURRENT_BATCH_INDEX keeps its value (the
\* batch is waiting for one response throughout), a store of poll_status for
\* the image the stored percent is for (LAST_BATCH_INDEX = CURRENT_BATCH_INDEX)
\* either does not lower LAST_PROGRESS or lowers it by at least 10 points, the
\* decrease being the float LAST_PROGRESS - LAST_PROGRESS'.
C1_NoSmallRegression ==
    [][\A q \in Pollers :
        (StoreStep(q) /\ CURRENT_TASK # "None"
                      /\ LAST_BATCH_INDEX = CURRENT_BATCH_INDEX)
         => \/ ~Less(LAST_PROGRESS', LAST_PROGRESS)
            \/ ~Less(Minus(LAST_PROGRESS, LAST_PROGRESS'), Whole(10))]_vars

\* C2: in a poll on the same image (LAST_BATCH_INDEX = CURRENT_BATCH_INDEX) a
\* raw percent below the stored one by less than 10 points makes the stored
\* percent the accepted one (40 stays 40 for raw 35), one below it by 10 points
\* or more is accepted (40 becomes 20 for raw 20), and one not below it is
\* accepted; the accepted percent is what the poll then stores, under the cap
\* of 99.
C2_AntiRegressionRule ==
    [][\A q \in Pollers :
        /\ (RuleStep(q) /\ LAST_BATCH_INDEX = CURRENT_BATCH_INDEX)
             => /\ (Less(raw_percent[q], LAST_PROGRESS)
                       /\ Less(Minus(LAST_PROGRESS, raw_percent[q]), Whole(10)))
                     => current_percent'[q] = LAST_PROGRESS
                /\ (Less(raw_percent[q], LAST_PROGRESS)
                       /\ ~Less(Minus(LAST_PROGRESS, raw_percent[q]), Whole(10)))
                     => current_percent'[q] = raw_percent[q]
                /\ ~Less(raw_percent[q], LAST_PROGRESS)
                     => current_percent'[q] = raw_percent[q]
        /\ StoreStep(q)
             => LAST_PROGRESS' = FMin(Whole(99), FMax(Whole(0), current_percent[q]))]_vars

\* The call made by the timer has kept 40 for a raw percent of 35 on the same
\* image and is about to store it, while the call made by the refresh button
\* is about to apply the rule to its own raw percent.
C2_Witness ==
    /\ ppc["tick"] = "store"
    /\ LAST_BATCH_INDEX = CURRENT_BATCH_INDEX
    /\ raw_percent["tick"] = Whole(35)
    /\ current_percent["tick"] = Whole(40)
    /\ LAST_PROGRESS = Whole(40)

\* C3: in a poll where LAST_BATCH_INDEX differs from CURRENT_BATCH_INDEX the raw
\* percent is accepted whatever the stored percent is, and LAST_BATCH_INDEX
\* becomes CURRENT_BATCH_INDEX.
C3_NewImageReset ==
    [][\A q \in Pollers :
        (RuleStep(q) /\ LAST_BATCH_INDEX # CURRENT_BATCH_INDEX)
         => /\ current_percent'[q] = raw_percent[q]
            /\ LAST_BATCH_INDEX' = CURRENT_BATCH_INDEX]_vars

\* A poll is about to apply the rule, for a new image, to a raw percent that is
\* less than 10 points below the stored one.
C3_Witness ==
    /\ ppc["tick"] = "rule"
    /\ LAST_BATCH_INDEX # CURRENT_BATCH_INDEX
    /\ Less(raw_percent["tick"], LAST_PROGRESS)
    /\ Less(Minus(LAST_PROGRESS, raw_percent["tick"]), Whole(10))

\* C4: for every reading and every pipeline the per-image progress lies in
\* [0.0, 1.0].
C4_ImageProgressInUnitRange ==
    \A q \in Pollers :
        /\ ~Less(current_image_progress[q], Whole(0))
        /\ ~Less(Whole(1), current_image_progress[q])

\* A fraction above 1 with a job_no beyond job_count has been normalized to 1.0.
C4_Witness ==
    /\ ppc["tick"] = "raw"
    /\ data["tick"].progress > ProgressScale
    /\ data["tick"].job_no > data["tick"].job_count
    /\ current_image_progress["tick"] = Whole(1)

\* C5: on the first image (CURRENT_BATCH_INDEX = 0) a reading with a fraction
\* below 0.05 and a job_no above 0 is normalized with job_no 0, so that the
\* per-image progress is at most 0.05; any other reading keeps its job_no.
C5_FirstImageGuard ==
    [][\A q \in Pollers : NormalizeStep(q)
         => IF CURRENT_BATCH_INDEX = 0 /\ data'[q].progress < 5 /\ data'[q].job_no > 0
            THEN /\ job_no'[q] = 0
                 /\ ~Less(Parsed(5), current_image_progress'[q])
            ELSE job_no'[q] = data'[q].job_no]_vars

\* The reading (0.02, job_no 1) on the first image has been given job_no 0.
C5_Witness ==
    /\ ppc["tick"] = "raw"
    /\ CURRENT_BATCH_INDEX = 0
    /\ data["tick"].progress = 2
    /\ data["tick"].job_no = 1
    /\ job_no["tick"] = 0

\* C6: for face_fix the per-image progress is 0 at job_no 0 and
\* (fraction - 0.5) / 0.5 clamped to [0, 1] at job_no 1 or more.
C6_FaceFixMapping ==
    [][\A q \in Pollers : (NormalizeStep(q) /\ CURRENT_TASK = "face_fix")
         => /\ job_no'[q] = 0 => current_image_progress'[q] = Whole(0)
            /\ job_no'[q] >= 1 =>
                 LET fraction == Parsed(data'[q].progress)
                     mapped == <<2 * (fraction[1] - Unit \div 2), 2 * fraction[2]>>
                 IN  current_image_progress'[q] =
                         IF Less(mapped, Whole(0)) THEN Whole(0)
                         ELSE IF Less(Whole(1), mapped) THEN Whole(1)
                         ELSE mapped]_vars

\* face_fix at job_no 1 with fraction 1.0 has given 1.0.
C6_Witness ==
    /\ ppc["tick"] = "raw"
    /\ CURRENT_TASK = "face_fix"
    /\ job_no["tick"] = 1
    /\ data["tick"].progress = 100
    /\ current_image_progress["tick"] = Whole(1)

\* C7: for the other pipelines the per-image progress is
\* (min(job_no, E - 1) + fraction) / E clamped to [0, 1], with
\* E = max(reported job_count, EXPECTED_JOB_COUNT).
C7_StagedMapping ==
    [][\A q \in Pollers : (NormalizeStep(q) /\ CURRENT_TASK # "face_fix")
         => LET E == Max(data'[q].job_count, EXPECTED_JOB_COUNT)
                stage == Min(job_no'[q], E - 1)
                mapped == DividedBy(Plus(Whole(stage), Parsed(data'[q].progress)), E)
            IN  current_image_progress'[q] =
                    IF Less(mapped, Whole(0)) THEN Whole(0)
                    ELSE IF Less(Whole(1), mapped) THEN Whole(1)
                    ELSE mapped]_vars

\* Reported count 1, expected count 3, job_no 2, fraction 0.5: (2 + 0.5) / 3.
C7_Witness ==
    /\ ppc["tick"] = "raw"
    /\ CURRENT_TASK = "cleanup"
    /\ EXPECTED_JOB_COUNT = 3
    /\ data["tick"] = [progress |-> 50, job_no |-> 2, job_count |-> 1]
    /\ job_no["tick"] = 2
    /\ current_image_progress["tick"][1] * 3 * ProgressScale = 250 * Unit

\* C8: LAST_PROGRESS stays within [0, 100]; the percentage a poll renders is at
\* most 99 when a task was active at that poll, is 100 only when none was and
\* LAST_PROGRESS is not 0, and is 0 when none was and LAST_PROGRESS is 0.
C8_RenderedPercent ==
    /\ [](~Less(LAST_PROGRESS, Whole(0)) /\ ~Less(Whole(100), LAST_PROGRESS))
    /\ [][\A q \in Pollers : RenderStep(q)
            => /\ val'[q] >= 0
               /\ is_generating[q] => val'[q] <= 99
               /\ val'[q] <= 100
               /\ val'[q] = 100 => (~is_generating[q] /\ Less(Whole(0), LAST_PROGRESS))
               /\ (~is_generating[q] /\ LAST_PROGRESS = Whole(0)) => val'[q] = 0]_vars

\* A poll of an active batch has rendered 99 for a raw percent of 100.
C8_Witness ==
    /\ ppc["tick"] = "return"
    /\ is_generating["tick"]
    /\ val["tick"] = 99
    /\ LAST_PROGRESS = Whole(99)

\* The handler h ends in this step.
EndStep(h) == bpc[h] # "idle" /\ bpc'[h] = "idle"

\* Every response the handler h has had carried exactly one image.
OneImageEach(h) == gen_images[h] = UpTo(i[h])

\* C9 as stated: once the flag has been set after the response for image k and
\* before the request for image k+1, the handler issues no further request, and
\* it ends with exactly k results and CURRENT_TASK = None.
C9_AsStated ==
    [][\A h \in Handlers :
         cancelledAfter[h] >= 1 =>
            /\ ~(bpc[h] = "issue" /\ bpc'[h] = "wait")
            /\ (EndStep(h) /\ OneImageEach(h))
                 => /\ Len(yielded'.images) = cancelledAfter[h]
                    /\ CURRENT_TASK' = "None"]_vars

\* C9 as amended: when the flag is set at the cancellation test that heads the
\* iteration for image k+1, the handler breaks and issues no further request;
\* after the loop it sets CURRENT_TASK to None, then makes its final yield,
\* which holds exactly k results and re-enables the button, and then ends as
\* cancelled.
C9_CancelledAtLoopHead ==
    [][\A h \in Handlers :
         /\ (bpc[h] = "loop" /\ bpc'[h] # "loop" /\ i[h] < args[h].batch_count
                /\ CURRENT_TASK = "None")
              => (bpc'[h] = "broke" /\ requests'[h] = requests[h])
         /\ (bpc[h] = "broke" /\ bpc'[h] # "broke")
              => /\ bpc'[h] = "yield"
                 /\ outcome'[h] = "cancelled"
                 /\ CURRENT_TASK' = "None"
                 /\ Len(requests[h]) = i[h]
                 /\ requests'[h] = requests[h]
         /\ (bpc[h] = "yield" /\ bpc'[h] # "yield" /\ outcome[h] = "cancelled")
              => /\ bpc'[h] = "end"
                 /\ yielded' = [by |-> h, images |-> gen_images[h],
                                params |-> parameters_list[h], interactive |-> TRUE,
                                text |-> FALSE]
                 /\ OneImageEach(h) => Len(yielded'.images) = i[h]
                 /\ requests'[h] = requests[h]
         /\ (bpc[h] = "end" /\ bpc'[h] # "end" /\ outcome[h] = "cancelled")
              => /\ EndStep(h)
                 /\ Len(requests[h]) = i[h]
                 /\ ended' = [by |-> h, how |-> "cancelled"]]_vars

\* A batch of more than one image, cancelled between its first response and its
\* second request, has made its final yield with exactly one result and has
\* ended.
C9_Witness ==
    /\ ended = [by |-> 1, how |-> "cancelled"]
    /\ yielded = [by |-> 1, images |-> <<0>>, params |-> <<0>>, interactive |-> TRUE,
                  text |-> FALSE]
    /\ CURRENT_TASK = "None"
    /\ bpc[1] = "idle"

\* C10: a batch of N images whose loop runs to its end (every request succeeds,
\* the cancellation test never fires) has set CURRENT_BATCH_INDEX to 0, ..., N-1
\* in that order, one request after each store; it has issued exactly N
\* requests when the range is exhausted, then sets CURRENT_TASK to None, then
\* makes its final yield, of N images when each response carried one and with
\* the button re-enabled, and ends as completed with CURRENT_TASK = None.
C10_EndToEnd ==
    [][\A h \in Handlers :
         /\ (bpc[h] = "loop" /\ bpc'[h] = "issue")
              => CURRENT_BATCH_INDEX' = Len(requests[h])
         /\ (bpc[h] = "issue" /\ bpc'[h] = "wait")
              => /\ Len(requests'[h]) = Len(requests[h]) + 1
                 /\ requests'[h][Len(requests'[h])].i = Len(requests[h])
         /\ (bpc[h] = "exhausted" /\ bpc'[h] # "exhausted")
              => /\ Len(requests[h]) = args[h].batch_count
                 /\ \A k \in 1 .. Len(requests[h]) : requests[h][k].i = k - 1
                 /\ bpc'[h] = "yield"
                 /\ outcome'[h] = "completed"
                 /\ CURRENT_TASK' = "None"
         /\ (bpc[h] = "yield" /\ bpc'[h] # "yield" /\ outcome[h] = "completed")
              => /\ bpc'[h] = "end"
                 /\ yielded'.by = h
                 /\ yielded'.images = gen_images[h]
                 /\ OneImageEach(h) => yielded'.images = UpTo(args[h].batch_count)
                 /\ yielded'.interactive
                 /\ CURRENT_TASK' = "None"
         /\ (bpc[h] = "end" /\ bpc'[h] # "end" /\ outcome[h] = "completed")
              => /\ EndStep(h)
                 /\ Len(requests[h]) = args[h].batch_count
                 /\ ended' = [by |-> h, how |-> "completed"]
                 /\ yielded' = yielded
                 /\ yielded.by = h
                 /\ CURRENT_TASK' = "None"]_vars

\* A batch of MaxBatch images has completed with MaxBatch results.
C10_Witness ==
    /\ ended = [by |-> 1, how |-> "completed"]
    /\ yielded = [by |-> 1, images |-> UpTo(MaxBatch), params |-> UpTo(MaxBatch),
                  interactive |-> TRUE, text |-> FALSE]
    /\ CURRENT_TASK = "None"
    /\ bpc[1] = "idle"

\* The handler h is in its request loop: no request of its batch has failed and
\* the cancellation test has not fired.
InLoop(h) == bpc[h] \in {"loop", "issue", "wait"}

\* C11 as stated: during a batch whose requests succeed, a poll on the same
\* image never accepts for display a percent more than 10 points below the
\* displayed one.
C11_AsStated ==
    [][\A q \in Pollers :
        (RuleStep(q) /\ CURRENT_TASK # "None" /\ (\E h \in Handlers : InLoop(h))
                  /\ LAST_BATCH_INDEX = CURRENT_BATCH_INDEX)
         => ~Less(Whole(10), Minus(LAST_PROGRESS, current_percent'[q]))]_vars

\* C11 as amended: during a batch whose requests succeed, a poll on the same
\* image accepts for display a percent below the displayed one only when its
\* raw percent is 10 points or more below it, and then that raw percent; a
\* smaller drop of the raw percent makes it accept the displayed percent.
C11_DropsOnlyBeyondThreshold ==
    [][\A q \in Pollers :
        (RuleStep(q) /\ CURRENT_TASK # "None" /\ (\E h \in Handlers : InLoop(h))
                  /\ LAST_BATCH_INDEX = CURRENT_BATCH_INDEX)
         => /\ Less(current_percent'[q], LAST_PROGRESS)
                 => /\ current_percent'[q] = raw_percent[q]
                    /\ ~Less(Minus(LAST_PROGRESS, raw_percent[q]), Whole(10))
            /\ (Less(raw_percent[q], LAST_PROGRESS)
                   /\ Less(Minus(LAST_PROGRESS, raw_percent[q]), Whole(10)))
                 => current_percent'[q] = LAST_PROGRESS]_vars

\* A batch is waiting for a response, a poll has displayed 40 for the image and
\* the next poll on the same image has accepted its raw percent of 20.
C11_Witness ==
    /\ ppc["tick"] = "store"
    /\ CURRENT_TASK # "None"
    /\ InLoop(1)
    /\ LAST_BATCH_INDEX = CURRENT_BATCH_INDEX
    /\ LAST_PROGRESS = Whole(40)
    /\ raw_percent["tick"] = Whole(20)
    /\ current_percent["tick"] = Whole(20)

\* C12: the request for in-batch index k carries the base seed plus k when the
\* base seed is not -1, and -1 when it is -1, in both pipelines.
C12_SeedRule ==
    \A h \in Handlers :
        \A k \in 1 .. Len(requests[h]) :
            /\ requests[h][k].i = k - 1
            /\ args[h].seed # -1 => requests[h][k].seed = args[h].seed + (k - 1)
            /\ args[h].seed = -1 => requests[h][k].seed = -1

\* A face-fix batch with base seed 100 has sent its second request with seed 101.
C12_Witness ==
    /\ pipeline[1] = "face_fix"
    /\ args[1].seed = 100
    /\ Len(requests[1]) = 2
    /\ requests[1][1].seed = 100
    /\ requests[1][2].seed = 101

\* C13: when the request for image k >= 1 fails after k successful ones, the
\* handler ends without a further request, with CURRENT_TASK = None and with a
\* final yield that still holds the images already produced.
C13_PartialResultsKept ==
    [][\A h \in Handlers :
         (i[h] >= 1 /\ EndStep(h) /\ ended'.how = "failed")
            => /\ CURRENT_TASK' = "None"
               /\ yielded'.by = h
               /\ yielded'.images = gen_images[h]
               /\ OneImageEach(h) => Len(yielded'.images) = i[h]]_vars

\* C14: a handler that has set CURRENT_TASK and then fails (model not found,
\* image not readable, capability failure, non-200 response, timeout) leaves
\* CURRENT_TASK = None when it ends.
C14_FailureClearsTask ==
    [][\A h \in Handlers :
         (EndStep(h) /\ bpc[h] # "called"
                     /\ ended'.how \in {"model_error", "image_error", "capability",
                                        "failed"})
            => CURRENT_TASK' = "None"]_vars

\* C15: a handler called while the server is unreachable ends at its
\* connectivity check: it writes none of the globals (CURRENT_TASK stays as it
\* was, None when it was None), yields nothing and has issued no request.
C15_UnreachableNeverBegins ==
    [][\A h \in Handlers :
         (EndStep(h) /\ ended'.how = "unreachable")
            => /\ bpc[h] = "called"
               /\ CURRENT_TASK' = CURRENT_TASK
               /\ TOTAL_BATCH_COUNT' = TOTAL_BATCH_COUNT
               /\ EXPECTED_JOB_COUNT' = EXPECTED_JOB_COUNT
               /\ LAST_PROGRESS' = LAST_PROGRESS
               /\ LAST_BATCH_INDEX' = LAST_BATCH_INDEX
               /\ CURRENT_BATCH_INDEX' = CURRENT_BATCH_INDEX
               /\ requests[h] = << >>
               /\ yielded' = yielded]_vars

\* The first call of the program has ended at the connectivity check: the
\* globals are as at program start.
C15_Witness ==
    /\ ended = [by |-> 1, how |-> "unreachable"]
    /\ bpc[1] = "idle"
    /\ CURRENT_TASK = "None"
    /\ TOTAL_BATCH_COUNT = 1
    /\ EXPECTED_JOB_COUNT = 1
    /\ LAST_PROGRESS = Whole(0)
    /\ LAST_BATCH_INDEX = -1

\* C16: at most one batch has begun at any time, and a handler called while
\* CURRENT_TASK is not None ends at once, writes no global and issues no request.
C16_SingleFlight ==
    /\ [](\A g, h \in Handlers : (Begun(g) /\ Begun(h)) => g = h)
    /\ [][\A h \in Handlers :
            (bpc[h] = "called" /\ bpc'[h] # "called" /\ CURRENT_TASK # "None")
               => /\ bpc'[h] = "idle"
                  /\ UNCHANGED globals
                  /\ requests' = requests]_vars

\* C17: in every state CURRENT_TASK is None exactly when no batch has begun and
\* not yet ended.
C17_TaskNoneIffNoBatch ==
    (CURRENT_TASK = "None") <=> (\A h \in Handlers : ~Begun(h))

\* C18: the click that starts a batch and the initialisation block of the batch
\* function each set LAST_PROGRESS to 0 and LAST_BATCH_INDEX to -1, in both
\* pipelines, and the batch has issued no request by then.
C18_ResetAtBatchStart ==
    [][\A h \in Handlers :
         /\ (bpc[h] = "idle" /\ bpc'[h] = "called")
              => (LAST_PROGRESS' = Whole(0) /\ LAST_BATCH_INDEX' = -1)
         /\ (bpc[h] = "init" /\ bpc'[h] # "init")
              => /\ bpc'[h] = "prepare"
                 /\ LAST_PROGRESS' = Whole(0)
                 /\ LAST_BATCH_INDEX' = -1
                 /\ requests'[h] = << >>]_vars

\* A face-fix batch has run its initialisation block while a poll was under
\* way: the two globals are reset and no request has been issued.
C18_Witness ==
    /\ bpc[1] = "prepare"
    /\ pipeline[1] = "face_fix"
    /\ CURRENT_TASK = "face_fix"
    /\ ppc["tick"] = "store"
    /\ LAST_PROGRESS = Whole(0)
    /\ LAST_BATCH_INDEX = -1
    /\ requests[1] = << >>

\* C19: in every state where CURRENT_TASK is not None,
\* 0 <= CURRENT_BATCH_INDEX < TOTAL_BATCH_COUNT.
C19_IndexWithinBatch ==
    CURRENT_TASK # "None"
        => (0 <= CURRENT_BATCH_INDEX /\ CURRENT_BATCH_INDEX < TOTAL_BATCH_COUNT)

\* C20: when the flag was set while the request for image k of a handler was in
\* flight and that request has completed normally, the result set with which the
\* handler ends holds no image of that request.
C20_InFlightResultDiscarded ==
    [][\A h \in Handlers :
         (EndStep(h) /\ cancelledDuring[h] >= 0 /\ i[h] > cancelledDuring[h])
            => \A k \in 1 .. Len(yielded'.images) :
                  yielded'.images[k] # cancelledDuring[h]]_vars

\* The positions of a handler after an exception of its try block.
AfterException == {"except", "log", "yield", "end"}

\* C21: a handler never sends a request for an image index it has already sent
\* one for, and a request that fails takes the handler to its except block, from
\* where it goes on to its last yield and its end: no request follows the failed
\* one until the button is clicked again.
C21_NoRetry ==
    [][\A h \in Handlers :
         /\ (bpc[h] = "issue" /\ bpc'[h] = "wait")
              => /\ \A k \in 1 .. Len(requests[h]) : requests[h][k].i # i[h]
                 /\ requests'[h] = Append(requests[h], requests'[h][Len(requests'[h])])
                 /\ requests'[h][Len(requests'[h])].i = i[h]
         /\ (bpc[h] = "wait" /\ bpc'[h] \notin {"wait", "loop"})
              => /\ bpc'[h] = "except"
                 /\ res'[h] \in FailedResponses
                 /\ requests'[h] = requests[h]
         /\ res[h] \in FailedResponses
              => /\ bpc[h] \in AfterException
                 /\ bpc'[h] \in AfterException \cup {"idle"}
                 /\ requests'[h] \in {requests[h], << >>}
         /\ ~Running(h) => (requests[h] = << >> /\ requests'[h] = << >>)]_vars

\* A request of a batch has failed: the handler has ended and no request is
\* pending.
C21_Witness ==
    /\ ended = [by |-> 1, how |-> "failed"]
    /\ bpc[1] = "idle"
    /\ requests[1] = << >>
    /\ yielded.interactive
    /\ CURRENT_TASK = "None"

\* The outcomes of a batch that has entered its request loop.
TerminalOutcomes == {"completed", "cancelled", "capability", "failed"}

\* C22: a batch that has entered its request loop (server reachable, model
\* resolved, image present), whose requests are all answered, reaches a final
\* yield (completed, cancelled or failed) that re-enables the button, with
\* CURRENT_TASK = None.
C22_BatchTerminates ==
    \A h \in Handlers :
        (bpc[h] = "loop")
            ~> /\ bpc[h] = "end"
               /\ outcome[h] \in TerminalOutcomes
               /\ yielded.by = h
               /\ yielded.interactive
               /\ CURRENT_TASK = "None"

\* C23: the request for image i + 1 is issued only after the request for image
\* i has been answered with success, and in no state are two generation
\* requests in flight.
C23_SequentialRequests ==
    /\ [](Cardinality({h \in Handlers : bpc[h] = "wait"}) <= 1)
    /\ [][\A h \in Handlers :
            (bpc[h] = "issue" /\ bpc'[h] = "wait")
               => /\ Len(requests[h]) = i[h]
                  /\ \A k \in 1 .. i[h] : requests[h][k].i = k - 1]_vars

\* C24: once interrupt_generation has set the flag for a running batch, the
\* batch issues no request for a later image, whatever else is started in the
\* meantime. Stated for the flag set while a request of the batch is in
\* flight: no request with a greater index follows.
C24_NoRequestAfterCancel ==
    [][\A h \in Handlers :
         (bpc[h] = "issue" /\ bpc'[h] = "wait" /\ cancelledDuring[h] >= 0)
            => i[h] <= cancelledDuring[h]]_vars

\* C25: at the head of the iteration for image i CURRENT_BATCH_INDEX is set to
\* i before the cancellation flag is tested, so a batch that stops at the
\* boundary before image i leaves CURRENT_BATCH_INDEX = i.
C25_IndexStoredBeforeTest ==
    [][\A h \in Handlers :
         (bpc[h] = "loop" /\ bpc'[h] = "broke") => CURRENT_BATCH_INDEX' = i[h]]_vars

\* C26: set_model_if_needed is called once per batch, before the first
\* request, and a request is issued only by a batch for which it has resolved
\* the model (it returned True); a batch for which it raised or returned False
\* issues no request.
C26_RequestsOnlyWithModel ==
    [][\A h \in Handlers :
         (bpc[h] = "issue" /\ bpc'[h] = "wait")
            => set_model_returned[h] = <<TRUE>>]_vars

\* C27: the batch state is written only while a task is active: a step taken
\* with CURRENT_TASK = None and no handler called or running, other than a
\* click, leaves CURRENT_BATCH_INDEX, TOTAL_BATCH_COUNT, EXPECTED_JOB_COUNT,
\* LAST_PROGRESS and LAST_BATCH_INDEX as they are.
C27_IdleWritesNothing ==
    [][(CURRENT_TASK = "None" /\ NoneRunning /\ NoneRunning')
          => UNCHANGED <<CURRENT_BATCH_INDEX, TOTAL_BATCH_COUNT, EXPECTED_JOB_COUNT,
                         LAST_PROGRESS, LAST_BATCH_INDEX>>]_vars

\* C28 as stated: the last yield of a batch whose request was answered with
\* the 422 that names the missing ADetailer script differs from the last yield
\* after every other failed request.
C28_AsStated ==
    [][\A h \in Handlers :
         (bpc[h] = "yield" /\ bpc'[h] = "end" /\ res[h] = "422_adetailer")
            => \A r \in FailedResponses \ {"422_adetailer"} :
                  yielded' # FinalYieldOf(h, FailureOutcome(r))]_vars

\* C28 as amended: a request answered with the 422 that names the missing
\* ADetailer script takes the handler to its except block; from there no request
\* is sent, CURRENT_TASK is set to None, the message logged is the one of the
\* missing ADetailer, which no other failed request logs, and the last yield is
\* the one of every failed request: empty lists and the button re-enabled.
C28_CapabilityFailureAborts ==
    [][\A h \in Handlers :
         /\ (bpc[h] = "wait" /\ res'[h] = "422_adetailer")
              => (bpc'[h] = "except" /\ requests'[h] = requests[h])
         /\ (bpc[h] = "except" /\ bpc'[h] # "except" /\ res[h] = "422_adetailer")
              => (bpc'[h] = "log" /\ CURRENT_TASK' = "None")
         /\ (bpc[h] = "log" /\ bpc'[h] # "log")
              => /\ bpc'[h] = "yield"
                 /\ (logged' = "capability") <=> (res[h] = "422_adetailer")
         /\ (bpc[h] = "yield" /\ bpc'[h] # "yield" /\ res[h] = "422_adetailer")
              => /\ bpc'[h] = "end"
                 /\ yielded' = [by |-> h, images |-> << >>, params |-> << >>,
                                interactive |-> TRUE, text |-> FALSE]
                 /\ \A r \in FailedResponses : yielded' = FinalYieldOf(h, FailureOutcome(r))
         /\ (bpc[h] = "end" /\ bpc'[h] # "end" /\ res[h] = "422_adetailer")
              => (EndStep(h) /\ ended' = [by |-> h, how |-> "capability"])
         /\ res[h] = "422_adetailer"
              => /\ bpc'[h] \in AfterException \cup {"idle"}
                 /\ requests'[h] \in {requests[h], << >>}]_vars

\* The first request of a batch of two was answered with the 422 of the
\* missing ADetailer: the message is logged, the last yield is made and the
\* batch is over.
C28_Witness ==
    /\ ended = [by |-> 1, how |-> "capability"]
    /\ logged = "capability"
    /\ CURRENT_BATCH_INDEX = 0
    /\ TOTAL_BATCH_COUNT = 2
    /\ CURRENT_TASK = "None"
    /\ ~Running(1)
    /\ yielded = [by |-> 1, images |-> << >>, params |-> << >>,
                  interactive |-> TRUE, text |-> FALSE]

\* C29: when every response has carried one image, the yield that follows the
\* k-th successful request of a batch holds exactly k images and k metadata
\* strings, extends the lists of the yield before it by one element, and
\* leaves the button disabled.
C29_IncrementalResults ==
    [][\A h \in {1} :
         (bpc[h] = "wait" /\ bpc'[h] = "loop" /\ OneImageEach(h)')
            => /\ yielded'.by = h
               /\ Len(yielded'.images) = Len(requests[h])
               /\ yielded'.images = Append(yielded.images, i[h])
               /\ yielded'.params = Append(yielded.params, i[h])
               /\ ~yielded'.interactive]_vars

\* The second request of a batch has been answered: two images are shown and
\* the button is disabled.
C29_Witness ==
    /\ bpc[1] = "loop"
    /\ i[1] = 2
    /\ yielded = [by |-> 1, images |-> <<0, 1>>, params |-> <<0, 1>>,
                  interactive |-> FALSE, text |-> FALSE]

\* C30: in every yield of a batch function the list of images and the list of
\* metadata strings have the same length.
C30_ListsSameLength ==
    Len(yielded.images) = Len(yielded.params)

\* A response without an image was followed by one with an image: the lists
\* hold the image of the second request and its metadata.
C30_Witness ==
    /\ bpc[1] = "loop"
    /\ i[1] = 2
    /\ yielded.by = 1
    /\ yielded.images = <<1>>
    /\ yielded.params = <<1>>

\* A step of poll_status: its position changes.
PollStep(q) == ppc'[q] # ppc[q]

\* C31: no step of poll_status changes CURRENT_TASK, CURRENT_BATCH_INDEX,
\* TOTAL_BATCH_COUNT or EXPECTED_JOB_COUNT, and LAST_BATCH_INDEX and
\* LAST_PROGRESS are written only by its rule and its store after a status
\* response: a poll that finds the server down, or whose status request fails,
\* writes neither.
C31_PollFrame ==
    [][\A q \in Pollers : PollStep(q)
         => /\ UNCHANGED <<CURRENT_TASK, CURRENT_BATCH_INDEX, TOTAL_BATCH_COUNT,
                           EXPECTED_JOB_COUNT>>
            /\ ppc[q] # "store" => UNCHANGED LAST_PROGRESS
            /\ ppc[q] # "rule" => UNCHANGED LAST_BATCH_INDEX
            /\ (ppc[q] \in {"idle", "get"} /\ ppc'[q] = "render")
                 => UNCHANGED <<globals, batchLocals>>]_vars

\* A poll taken during a batch has skipped the computation (server down,
\* failed request, or no reading) and the stored percent is still 20 or more.
C31_Witness ==
    /\ ppc["tick"] = "render"
    /\ is_generating["tick"]
    /\ raw_percent["tick"] = Whole(0)
    /\ ~Less(LAST_PROGRESS, Whole(20))
    /\ LAST_BATCH_INDEX = CURRENT_BATCH_INDEX

\* C32: an interrupt_generation whose request raises leaves CURRENT_TASK and
\* the batch as they are, so a batch whose stop requests all fail is never
\* cancelled: after a failed stop between the response for image k - 1 and the
\* request for image k, the loop head stores CURRENT_BATCH_INDEX = k and the
\* request for image k is issued.
C32_FailedInterruptNoCancel ==
    /\ [](ended.how # "cancelled" /\ \A h \in Handlers : bpc[h] # "broke")
    /\ [][\A h \in Handlers :
            /\ (failedAfter'[h] # failedAfter[h] /\ failedAfter'[h] >= 0)
                 => UNCHANGED <<globals, bpc, requests, cancelledAfter,
                                cancelledDuring, yielded, ended>>
            /\ (bpc[h] = "loop" /\ bpc'[h] # "loop" /\ failedAfter[h] = i[h])
                 => /\ bpc'[h] = "issue"
                    /\ CURRENT_BATCH_INDEX' = i[h]
            /\ (bpc[h] = "issue" /\ bpc'[h] # "issue" /\ failedAfter[h] = i[h])
                 => /\ bpc'[h] = "wait"
                    /\ requests'[h][Len(requests'[h])].i = i[h]]_vars

\* A stop failed after the first response of a batch of two, and the request
\* for the second image is in flight.
C32_Witness ==
    /\ failedAfter[1] = 1
    /\ bpc[1] = "wait"
    /\ Len(requests[1]) = 2
    /\ requests[1][2].i = 1
    /\ CURRENT_TASK # "None"

\* C33: whenever a task is active and LAST_BATCH_INDEX = CURRENT_BATCH_INDEX = i
\* with TOTAL_BATCH_COUNT = N, the stored percent lies in the slice of image i:
\* 100 * i / N <= LAST_PROGRESS <= min(99, 100 * (i + 1) / N), the rounding
\* error of the stored float left aside.
C33_StoredPercentInSlice ==
    (CURRENT_TASK # "None" /\ LAST_BATCH_INDEX = CURRENT_BATCH_INDEX)
        => /\ Pct(100) * CURRENT_BATCH_INDEX <= LAST_PROGRESS[1] * TOTAL_BATCH_COUNT
           /\ LAST_PROGRESS[1] * TOTAL_BATCH_COUNT <= Pct(100) * (CURRENT_BATCH_INDEX + 1)
           /\ LAST_PROGRESS[1] <= Pct(99)

\* C34: once a batch start has set LAST_PROGRESS = 0 and LAST_BATCH_INDEX = -1,
\* every store of a poll writes a percent computed from the CURRENT_BATCH_INDEX
\* and the TOTAL_BATCH_COUNT of the new batch: a poll that computed its percent
\* before the start does not store it after the start.
C34_NoStaleStoreAfterStart ==
    [][\A q \in Pollers :
       (/\ StoreStep(q)
        /\ current_percent[q] = raw_percent[q]
        /\ CURRENT_TASK # "None"
        /\ \E h \in Handlers : bpc[h] \notin {"idle", "called", "init"})
          => \E c \in 0 .. CURRENT_BATCH_INDEX :
               raw_percent[q] = RawPercent(c, current_image_progress[q],
                                        TOTAL_BATCH_COUNT)]_vars

=============================================================================
